---------------------------- MODULE Spec2Model ----------------------------
(***************************************************************************)
(* Yarra Supply Hub frontend: the Kogan template export lifecycle          *)
(* (pages/download/KoganTemplateDataDownload.tsx, api/download.ts) and the *)
(* schedule editor (pages/Schedules/SchedulePage.tsx), and beside the two  *)
(* pages the functions they send and receive through: the body of a        *)
(* schedule update, the summary and the file name of an artifact response, *)
(* and the timeout set by the request interceptor.                         *)
(*                                                                         *)
(* The backend is not part of the repository: every response of the server *)
(* is an input of the handler continuation that consumes it.  A handler is *)
(* split at its awaits; the code between two awaits runs to completion on  *)
(* the single JavaScript thread and is one action.                         *)
(***************************************************************************)
EXTENDS Integers, FiniteSets, Sequences, TLC

(***************************************************************************)
(* Bounds of the model.                                                    *)
(***************************************************************************)
\* characters of a file name in a content-disposition header
MaxNameLen == 2
\* jobs the server may create per country
MaxJobId == 3
\* handler instances of the export page that may be awaiting a response at once
MaxInFlight == 3
\* jobs the server exports per country in the runs checked for liveness
MaxLiveJobs == 2

(***************************************************************************)
(* Export lifecycle: types/koganTemplateDownload.ts, api/download.ts       *)
(***************************************************************************)
CountryType == {"AU", "NZ"}
OpKeys == {"download", "redownload", "apply"}
JobIds == 1..MaxJobId

\* job_id 0 stands for JavaScript's undefined job_id
Undefined == 0

\* the `undefined` slot of the jobs map
NoJob == [job_id |-> Undefined, detail |-> "undefined"]

\* the body of a Create that found nothing to export: only `detail` is set
NoDirtyResponse == [job_id |-> Undefined, detail |-> "no_dirty_sku"]

\* an exported job summary
JobSummary(j) == [job_id |-> j, detail |-> "absent"]

\* `!job` in the handlers and in renderJobInfo
Falsy(job) == job = NoJob

\* "detail" in job && job.detail === "no_dirty_sku"
IsNoDirty(job) == job.detail = "no_dirty_sku"

\* header value of a response that does not carry the header
Absent == 0

\* parseJobSummaryFromHeaders: header("x-kogan-export-job") || fallback.job_id || ""
\* (the empty string and undefined are both the falsy id 0 here)
parseJobSummaryFromHeaders(hdrJob, fallbackJobId) ==
    JobSummary(IF hdrJob # Absent THEN hdrJob ELSE fallbackJobId)

VARIABLES
    jobs,        \* useState jobs: country -> tracked job or NoJob
    loadingMap,  \* useState loadingMap: country -> op -> BOOLEAN
    pc,          \* country -> op -> where the handler instance is suspended
    created,     \* history: country -> job ids returned by completed Creates
    lastCreated, \* history: country -> job id returned by the latest such Create
    event,       \* the response consumed (or the start made) by the last step
    notice       \* the antd message raised by the last step

exportVars == <<jobs, loadingMap, pc, created, lastCreated, event, notice>>

VARIABLES
    data,        \* useQuery(['schedules']).data: key -> last record received
    loaded,      \* a list response has arrived (isLoading is false, list is non-empty)
    fetch,       \* the list request: "idle", "attempt1" or "attempt2" (the retry)
    form,        \* key -> field values of the mounted ScheduleForm
    isDirty,     \* key -> useState isDirty of the mounted ScheduleForm
    pending,     \* the key whose update request is in flight (mutation.isPending)
    savedKey,    \* history: the key last saved and not yet followed by a list response
    schedEvent,  \* the response consumed by the last step of the schedule page, if any
    schedNotice  \* the antd message (or validation error) raised by the last step

schedVars == <<data, loaded, fetch, form, isDirty, pending, savedKey, schedEvent, schedNotice>>

VARIABLES
    saveFrom,    \* one save: the record s and the validated form values of onFinish
    savePayload, \* one save: <<payload>> once onSave has called mutation.mutate
    putSent      \* one save: the requests updateSchedule has handed to http.put

saveVars == <<saveFrom, savePayload, putSent>>

VARIABLES
    parseIn,     \* one artifact response: the call's job id, file name and baseline, and
                 \* the response headers
    parsed       \* one artifact response: <<summary>> once the headers are parsed

parseVars == <<parseIn, parsed>>

VARIABLES
    nameIn,      \* one artifact response: the call's job id and fallback file name, and
                 \* the content-disposition header
    saved,       \* one artifact response: <<name>> once the file is saved under it
    nameThrew    \* one artifact response: decodeURIComponent threw, nothing is saved

nameVars == <<nameIn, saved, nameThrew>>

VARIABLES
    config,      \* one request: the axios config handed to the request interceptor
    sent         \* one request: <<config>> as the interceptor returns it

httpVars == <<config, sent>>

VARIABLES
    freightData,    \* useQuery(['freight-config']).data: <<config>>, <<>> while undefined
    freightFetch,   \* a GET /freight-config is in flight
    freightForm,    \* field -> value of the antd form (Cleared: the input is empty)
    freightSaving,  \* useState saving
    freightPatch,   \* <<request>>: the PATCH /freight-config in flight, <<>> when none
    freightSaved,   \* history: <<config>> answered to the last PATCH that succeeded
    freightEvent    \* what the last step of the freight page did

freightVars == <<freightData, freightFetch, freightForm, freightSaving, freightPatch,
                 freightSaved, freightEvent>>

VARIABLES
    pathname,       \* window.location.pathname
    checked,        \* useState checked of App
    isAuthed,       \* useState isAuthed of App
    meCall,         \* the chain me().then().catch().finally() of App's effect
    view,           \* what App returned when it last rendered
    loginCall,      \* LoginPage: a POST /auth/login is in flight
    logoutCall,     \* UserMenu: a POST /auth/logout is in flight
    authEvent       \* what the last step of the shell did

authVars == <<pathname, checked, isAuthed, meCall, view, loginCall, logoutCall, authEvent>>

VARIABLES
    searchForm,     \* the values of the filter form of ProductsPage
    criteria,       \* useState criteria
    page,           \* useState page
    downloading,    \* useState downloading
    listRequests,   \* the params of the GET /products requests the last step caused
    exportRequest,  \* <<params>> of the GET /products/export in flight, <<>> when none
    prodEvent       \* what the last step of the products page did

prodVars == <<searchForm, criteria, page, downloading, listRequests, exportRequest, prodEvent>>

\* the pages modelled besides the export and the schedule page
pageVars == <<freightVars, authVars, prodVars>>

\* what a step of the export page leaves alone
outsideExport == <<schedVars, saveVars, parseVars, nameVars, httpVars, pageVars>>

\* what a step of the schedule page leaves alone
outsideSched == <<exportVars, saveVars, parseVars, nameVars, httpVars, pageVars>>

\* what a step of a single save leaves alone
outsideSave == <<exportVars, schedVars, parseVars, nameVars, httpVars, pageVars>>

\* what the parsing of one artifact response leaves alone
outsideParse == <<exportVars, schedVars, saveVars, nameVars, httpVars, pageVars>>

\* what the naming of one downloaded file leaves alone
outsideName == <<exportVars, schedVars, saveVars, parseVars, httpVars, pageVars>>

\* what the request interceptor leaves alone
outsideHttp == <<exportVars, schedVars, saveVars, parseVars, nameVars, pageVars>>

\* the one-shot pipelines of the pure functions
pipelineVars == <<saveVars, parseVars, nameVars, httpVars>>

\* what a step of the freight config page leaves alone
outsideFreight == <<exportVars, schedVars, pipelineVars, authVars, prodVars>>

\* what a step of the application shell leaves alone
outsideAuth == <<exportVars, schedVars, pipelineVars, freightVars, prodVars>>

\* what a step of the products page leaves alone
outsideProducts == <<exportVars, schedVars, pipelineVars, freightVars, authVars>>

Idle == [at |-> "idle", id |-> Undefined]

\* the number of handler instances suspended at an await
InFlight == Cardinality({x \in CountryType \X OpKeys : pc[x[1]][x[2]].at # "idle"})

\* a setLoading that rebuilds the map from the country it is called for and
\* drops the `...prev` spread: the flags of the other country are reset
setLoadingWithoutSpread(lm, country, key, value) ==
    [c \in CountryType |->
        IF c = country THEN [lm[c] EXCEPT ![key] = value]
        ELSE [k \in OpKeys |-> FALSE]]

\* setLoading(country, key, value):
\* setLoadingMap((prev) => ({ ...prev, [country]: { ...prev[country], [key]: value } }))
setLoading(lm, country, key, value) == [lm EXCEPT ![country][key] = value]

\* a button that is not given the loading prop takes every click
buttonAlwaysTakesClick(lm, country, key) == TRUE

\* buttons that share one busy flag per country
buttonTakesClickWhenCountryIdle(lm, country, key) == \A k \in OpKeys : ~lm[country][k]

\* <Button loading={loadingMap[country][key]} onClick=...>: an antd Button whose
\* loading prop is true swallows the click, the handler runs only when it is false
buttonTakesClick(lm, country, key) == ~lm[country][key]

setPc(p, country, key, value) == [p EXCEPT ![country][key] = value]

InitExport ==
    /\ jobs = [c \in CountryType |-> NoJob]
    /\ loadingMap = [c \in CountryType |-> [k \in OpKeys |-> FALSE]]
    /\ pc = [c \in CountryType |-> [k \in OpKeys |-> Idle]]
    /\ created = [c \in CountryType |-> {}]
    /\ lastCreated = [c \in CountryType |-> Undefined]
    /\ event = "none"
    /\ notice = "none"

(***************************************************************************)
(* handleDownload: KoganTemplateDataDownload.tsx 46-60, with               *)
(* downloadKoganTemplateCSV (download.ts 113-122) inlined at its awaits.   *)
(***************************************************************************)

\* a `finally` that forgets to clear the busy flag
finallyLeavesLoading(lm, country, key) == lm

\* the `finally` of the three handlers: setLoading(country, key, false)
finallyLoading(lm, country, key) == setLoading(lm, country, key, FALSE)

\* the download button is clicked: setLoading(true), then POST /kogan-template/export
\* (an antd Button whose loading prop is true swallows the click)
HandleDownload(c) ==
    /\ buttonTakesClick(loadingMap, c, "download")
    /\ InFlight < MaxInFlight
    /\ loadingMap' = setLoading(loadingMap, c, "download", TRUE)
    /\ pc' = setPc(pc, c, "download", [at |-> "create", id |-> Undefined])
    /\ event' = "start"
    /\ notice' = "none"
    /\ UNCHANGED <<jobs, created, lastCreated>>
    /\ UNCHANGED outsideExport

\* what handleDownload stores once downloadKoganTemplateCSV has resolved with `job`:
\* setJobs((prev) => ({ ...prev, [country]: job }))
storeDownloaded(js, country, job) == [js EXCEPT ![country] = job]

\* the Create request fails: downloadKoganTemplateCSV rejects, catch + finally run
CreateFails(c) ==
    /\ pc[c].download.at = "create"
    /\ pc' = setPc(pc, c, "download", Idle)
    /\ loadingMap' = finallyLoading(loadingMap, c, "download")
    /\ event' = "create_error"
    /\ notice' = "error"
    /\ UNCHANGED <<jobs, created, lastCreated>>
    /\ UNCHANGED outsideExport

\* the Create request answers { detail: "no_dirty_sku" }: downloadKoganTemplateCSV
\* returns that body (download.ts 117-119) and handleDownload goes on with it
CreateNoDirty(c) ==
    /\ pc[c].download.at = "create"
    /\ IsNoDirty(NoDirtyResponse)
    /\ jobs' = storeDownloaded(jobs, c, NoDirtyResponse)
    /\ pc' = setPc(pc, c, "download", Idle)
    /\ loadingMap' = finallyLoading(loadingMap, c, "download")
    /\ event' = "no_dirty"
    /\ notice' = "success"
    /\ UNCHANGED <<created, lastCreated>>
    /\ UNCHANGED outsideExport

\* the Create request answers an exported job j: download.ts 120 issues
\* GET /kogan-template/download?job_id=j and the handler stays suspended.
\* Every Create makes a job of its own: the jobs of a country are numbered in the
\* order of their Creates, so that the jobs of different Creates can be told apart.
CreateExported(c) ==
    /\ pc[c].download.at = "create"
    /\ \E j \in JobIds :
        /\ j = Cardinality(created[c]) + 1
        /\ ~IsNoDirty(JobSummary(j))
        /\ created' = [created EXCEPT ![c] = @ \cup {j}]
        /\ lastCreated' = [lastCreated EXCEPT ![c] = j]
        /\ pc' = setPc(pc, c, "download", [at |-> "fetch", id |-> j])
    /\ event' = "created"
    /\ notice' = "none"
    /\ UNCHANGED <<jobs, loadingMap>>
    /\ UNCHANGED outsideExport

\* the artifact download of handleDownload succeeds; the x-kogan-export-job
\* header is absent or repeats the requested id
DownloadFetched(c) ==
    /\ pc[c].download.at = "fetch"
    /\ \E hdr \in {Absent, pc[c].download.id} :
        jobs' = storeDownloaded(jobs, c,
                    parseJobSummaryFromHeaders(hdr, pc[c].download.id))
    /\ pc' = setPc(pc, c, "download", Idle)
    /\ loadingMap' = finallyLoading(loadingMap, c, "download")
    /\ event' = "fetch_ok"
    /\ notice' = "success"
    /\ UNCHANGED <<created, lastCreated>>
    /\ UNCHANGED outsideExport

\* the artifact download of handleDownload fails: setJobs is never reached
\* a failed artifact download whose handler has a catch but no finally
DownloadFetchFailsWithoutFinally(c) ==
    /\ pc[c].download.at = "fetch"
    /\ pc' = setPc(pc, c, "download", Idle)
    /\ event' = "fetch_error"
    /\ notice' = "error"
    /\ UNCHANGED <<jobs, loadingMap, created, lastCreated>>
    /\ UNCHANGED outsideExport

DownloadFetchFails(c) ==
    /\ pc[c].download.at = "fetch"
    /\ pc' = setPc(pc, c, "download", Idle)
    /\ loadingMap' = finallyLoading(loadingMap, c, "download")
    /\ event' = "fetch_error"
    /\ notice' = "error"
    /\ UNCHANGED <<jobs, created, lastCreated>>
    /\ UNCHANGED outsideExport

(***************************************************************************)
(* handleRedownload: KoganTemplateDataDownload.tsx 62-78                   *)
(***************************************************************************)

\* The handlers are modelled with their own guard: a call may come while no job is
\* tracked (renderJobInfo, 101-103, hides the two buttons under the same condition).
\* An antd Button whose loading prop is true swallows the click (114, 122).

\* `if (!job) { message.warning(...); return; }` of handleRedownload
redownloadBlocked(job) == Falsy(job)

HandleRedownload(c) ==
    /\ buttonTakesClick(loadingMap, c, "redownload")
    /\ IF redownloadBlocked(jobs[c])
       THEN /\ event' = "guard_redownload"
            /\ notice' = "warning"
            /\ UNCHANGED <<jobs, loadingMap, pc, created, lastCreated>>
       ELSE /\ InFlight < MaxInFlight
            /\ loadingMap' = setLoading(loadingMap, c, "redownload", TRUE)
            /\ pc' = setPc(pc, c, "redownload", [at |-> "fetch", id |-> jobs[c].job_id])
            /\ event' = "start"
            /\ notice' = "none"
            /\ UNCHANGED <<jobs, created, lastCreated>>
    /\ UNCHANGED outsideExport

\* a redownload that stores the summary parsed from the response headers
RedownloadFetchedStoringSummary(c) ==
    /\ pc[c].redownload.at = "fetch"
    /\ jobs' = storeDownloaded(jobs, c,
                    parseJobSummaryFromHeaders(Absent, pc[c].redownload.id))
    /\ pc' = setPc(pc, c, "redownload", Idle)
    /\ loadingMap' = finallyLoading(loadingMap, c, "redownload")
    /\ event' = "refetch_ok"
    /\ notice' = "success"
    /\ UNCHANGED <<created, lastCreated>>
    /\ UNCHANGED outsideExport

\* the artifact download of handleRedownload succeeds: the summary that
\* downloadKoganTemplateCSVByJob returns is dropped (line 70 awaits and discards it)
RedownloadFetched(c) ==
    /\ pc[c].redownload.at = "fetch"
    /\ pc' = setPc(pc, c, "redownload", Idle)
    /\ loadingMap' = finallyLoading(loadingMap, c, "redownload")
    /\ event' = "refetch_ok"
    /\ notice' = "success"
    /\ UNCHANGED <<jobs, created, lastCreated>>
    /\ UNCHANGED outsideExport

RedownloadFails(c) ==
    /\ pc[c].redownload.at = "fetch"
    /\ pc' = setPc(pc, c, "redownload", Idle)
    /\ loadingMap' = finallyLoading(loadingMap, c, "redownload")
    /\ event' = "refetch_error"
    /\ notice' = "error"
    /\ UNCHANGED <<jobs, created, lastCreated>>
    /\ UNCHANGED outsideExport

(***************************************************************************)
(* handleApply: KoganTemplateDataDownload.tsx 80-99                        *)
(***************************************************************************)

\* handleApply without its guard
applyNeverBlocked(job) == FALSE

\* `if (!job) { message.warning(...); return; }` of handleApply
applyBlocked(job) == Falsy(job)

HandleApply(c) ==
    /\ buttonTakesClick(loadingMap, c, "apply")
    /\ IF applyBlocked(jobs[c])
       THEN /\ event' = "guard_apply"
            /\ notice' = "warning"
            /\ UNCHANGED <<jobs, loadingMap, pc, created, lastCreated>>
       ELSE /\ InFlight < MaxInFlight
            /\ loadingMap' = setLoading(loadingMap, c, "apply", TRUE)
            /\ pc' = setPc(pc, c, "apply", [at |-> "apply", id |-> jobs[c].job_id])
            /\ event' = "start"
            /\ notice' = "none"
            /\ UNCHANGED <<jobs, created, lastCreated>>
    /\ UNCHANGED outsideExport

\* setJobs((prev) => ({ ...prev, [country]: undefined })) after a successful apply:
\* the slot is cleared whichever job it holds by then
clearApplied(js, country) == [js EXCEPT ![country] = NoJob]

ApplySucceeds(c) ==
    /\ pc[c].apply.at = "apply"
    /\ jobs' = clearApplied(jobs, c)
    /\ pc' = setPc(pc, c, "apply", Idle)
    /\ loadingMap' = finallyLoading(loadingMap, c, "apply")
    /\ event' = "apply_ok"
    /\ notice' = "success"
    /\ UNCHANGED <<created, lastCreated>>
    /\ UNCHANGED outsideExport

ApplyFails(c) ==
    /\ pc[c].apply.at = "apply"
    /\ pc' = setPc(pc, c, "apply", Idle)
    /\ loadingMap' = finallyLoading(loadingMap, c, "apply")
    /\ event' = "apply_error"
    /\ notice' = "error"
    /\ UNCHANGED <<jobs, created, lastCreated>>
    /\ UNCHANGED outsideExport

(***************************************************************************)
(* Schedule editor: pages/Schedules/SchedulePage.tsx, types/schedule.ts    *)
(***************************************************************************)
ScheduleKey == {"price_reset", "product_full_sync"}

\* the weekdays and times of day the model draws records and edits from
DowValues == {"MON", "TUE"}
Times == {<<3, 0>>, <<3, 30>>, <<4, 0>>}

\* the four fields of a Schedule the page compares and edits
Schedule == {[enabled |-> e, day_of_week |-> d, hour |-> t[1], minute |-> t[2]] :
                e \in BOOLEAN, d \in DowValues, t \in Times}

\* the records a list response may carry for key k: price_reset ranges over all of
\* Schedule, product_full_sync over the MON 03:00 records (enabled or not)
ScheduleOf(k) ==
    IF k = "price_reset" THEN Schedule
    ELSE {s \in Schedule : s.day_of_week = "MON" /\ s.hour = 3 /\ s.minute = 0}

\* the lists GET /schedules may answer: one record per key
Lists ==
    {[k \in ScheduleKey |-> IF k = "price_reset" THEN p[1] ELSE p[2]] :
        p \in ScheduleOf("price_reset") \X ScheduleOf("product_full_sync")}

\* the value of the time field after the TimePicker has been cleared (null)
NoTime == [hour |-> -1, minute |-> -1]

\* dayjs.isDayjs(time)
isDayjs(time) == time # NoTime

NoSchedule == [enabled |-> FALSE, day_of_week |-> "", hour |-> -1, minute |-> -1]
NoForm == [enabled |-> FALSE, day_of_week |-> "", time |-> NoTime]
NoKey == ""

\* the React key of a ScheduleForm:
\* `${s.key}-${s.enabled}-${s.day_of_week}-${s.hour}-${s.minute}`
formKey(k, s) == <<k, s.enabled, s.day_of_week, s.hour, s.minute>>

\* const baseline = { enabled: initial.enabled ?? false, day_of_week, hour, minute }
baseline(initial) ==
    [enabled |-> initial.enabled, day_of_week |-> initial.day_of_week,
     hour |-> initial.hour, minute |-> initial.minute]

\* initialValues of the Form: enabled, day_of_week, time = dayjs().hour(h).minute(m)
initialValues(initial) ==
    [enabled |-> initial.enabled, day_of_week |-> initial.day_of_week,
     time |-> [hour |-> initial.hour, minute |-> initial.minute]]

\* handleValuesChange without the day_of_week comparison
changedIgnoringDow(values, base) ==
    LET h == IF isDayjs(values.time) THEN values.time.hour ELSE base.hour
        m == IF isDayjs(values.time) THEN values.time.minute ELSE base.minute
    IN  \/ values.enabled # base.enabled
        \/ h # base.hour
        \/ m # base.minute

\* handleValuesChange: the value handed to setIsDirty
changed(values, base) ==
    LET h == IF isDayjs(values.time) THEN values.time.hour ELSE base.hour
        m == IF isDayjs(values.time) THEN values.time.minute ELSE base.minute
    IN  \/ values.enabled # base.enabled
        \/ values.day_of_week # base.day_of_week
        \/ h # base.hour
        \/ m # base.minute

\* onSave: the payload handed to mutation.mutate,
\* { ...s, enabled, day_of_week, hour: t.hour(), minute: t.minute() }
onSave(s, values) ==
    [s EXCEPT !.enabled = values.enabled, !.day_of_week = values.day_of_week,
              !.hour = values.time.hour, !.minute = values.time.minute]

\* saving={mutation.isPending}: one mutation serves every form of the page
saving(k) == pending # NoKey

\* a Save button without disabled={!isDirty}
saveButtonIgnoringDirty(k) == ~saving(k)

\* the Save button takes a click: <Button loading={saving} disabled={!isDirty}>
saveButtonActive(k) == isDirty[k] /\ ~saving(k)

\* a form whose fields carry no `required` rule
formValidWithoutRules(values) == TRUE

\* the `required` rules of day_of_week and time
formValid(values) == values.day_of_week # "" /\ isDayjs(values.time)

InitSched ==
    /\ data = [k \in ScheduleKey |-> NoSchedule]
    /\ loaded = FALSE
    /\ fetch = "attempt1"
    /\ form = [k \in ScheduleKey |-> NoForm]
    /\ isDirty = [k \in ScheduleKey |-> FALSE]
    /\ pending = NoKey
    /\ savedKey = NoKey
    /\ schedEvent = "none"
    /\ schedNotice = "none"

\* a form is mounted anew when its card first appears or its React key changes
remounts(k, fresh) == ~loaded \/ formKey(k, fresh) # formKey(k, data[k])

\* GET /schedules answers: the cache takes the list, forms whose key changed remount
ListArrives ==
    /\ fetch # "idle"
    /\ \E list \in Lists :
        /\ data' = list
        /\ form' = [k \in ScheduleKey |->
                      IF remounts(k, list[k]) THEN initialValues(list[k]) ELSE form[k]]
        /\ isDirty' = [k \in ScheduleKey |->
                      IF remounts(k, list[k]) THEN FALSE ELSE isDirty[k]]
    /\ loaded' = TRUE
    /\ fetch' = "idle"
    /\ savedKey' = NoKey
    /\ schedEvent' = "listed"
    /\ schedNotice' = "none"
    /\ UNCHANGED pending
    /\ UNCHANGED outsideSched

\* a retry that starts counting afresh after the second failure
ListFailsRestarting ==
    /\ fetch # "idle"
    /\ fetch' = IF fetch = "attempt1" THEN "attempt2" ELSE "attempt1"
    /\ savedKey' = savedKey
    /\ schedEvent' = "none"
    /\ schedNotice' = "none"
    /\ UNCHANGED <<data, loaded, form, isDirty, pending>>
    /\ UNCHANGED outsideSched

\* GET /schedules fails: queryClient's retry: 1 sends it once more, then gives up
ListFails ==
    /\ fetch # "idle"
    /\ fetch' = IF fetch = "attempt1" THEN "attempt2" ELSE "idle"
    /\ savedKey' = IF fetch = "attempt1" THEN savedKey ELSE NoKey
    /\ schedEvent' = "none"
    /\ schedNotice' = "none"
    /\ UNCHANGED <<data, loaded, form, isDirty, pending>>
    /\ UNCHANGED outsideSched

\* the operator changes a field of form k; onValuesChange runs handleValuesChange
Edit(k, values) ==
    /\ loaded
    /\ form' = [form EXCEPT ![k] = values]
    /\ isDirty' = [isDirty EXCEPT ![k] = changed(values, baseline(data[k]))]
    /\ schedEvent' = "none"
    /\ schedNotice' = "none"
    /\ UNCHANGED <<data, loaded, fetch, pending, savedKey>>
    /\ UNCHANGED outsideSched

ToggleEnabled(k) == Edit(k, [form[k] EXCEPT !.enabled = ~@])

SelectDow(k) == \E d \in DowValues : Edit(k, [form[k] EXCEPT !.day_of_week = d])

PickTime(k) ==
    \E t \in Times : Edit(k, [form[k] EXCEPT !.time = [hour |-> t[1], minute |-> t[2]]])

ClearTime(k) == Edit(k, [form[k] EXCEPT !.time = NoTime])

\* a submit that writes the payload into the cached list at once
SubmitOptimistic(k) ==
    /\ loaded
    /\ saveButtonActive(k)
    /\ formValid(form[k])
    /\ pending' = k
    /\ data' = [data EXCEPT ![k] = onSave(data[k], form[k])]
    /\ schedEvent' = "none"
    /\ schedNotice' = "none"
    /\ UNCHANGED <<loaded, fetch, form, isDirty, savedKey>>
    /\ UNCHANGED outsideSched

\* Save is clicked and validation passes: onFinish -> onSave -> mutation.mutate
Submit(k) ==
    /\ loaded
    /\ saveButtonActive(k)
    /\ formValid(form[k])
    /\ pending' = k
    /\ schedEvent' = "none"
    /\ schedNotice' = "none"
    /\ UNCHANGED <<data, loaded, fetch, form, isDirty, savedKey>>
    /\ UNCHANGED outsideSched

\* Save is clicked and validation fails: the field errors show, onFinish is not called
SubmitInvalid(k) ==
    /\ loaded
    /\ saveButtonActive(k)
    /\ ~formValid(form[k])
    /\ schedEvent' = "submit_invalid"
    /\ schedNotice' = "invalid"
    /\ UNCHANGED <<data, loaded, fetch, form, isDirty, pending, savedKey>>
    /\ UNCHANGED outsideSched

\* PUT /schedules/{key} succeeds: onSuccess invalidates ['schedules'], which
\* cancels a list request in flight and sends a new one
SaveSucceeds ==
    /\ pending # NoKey
    /\ pending' = NoKey
    /\ fetch' = "attempt1"
    /\ savedKey' = pending
    /\ schedEvent' = "saved"
    /\ schedNotice' = "saved"
    /\ UNCHANGED <<data, loaded, form, isDirty>>
    /\ UNCHANGED outsideSched

\* an onError that also marks the form clean
SaveFailsClearingDirty ==
    /\ pending # NoKey
    /\ pending' = NoKey
    /\ isDirty' = [isDirty EXCEPT ![pending] = FALSE]
    /\ schedEvent' = "save_error"
    /\ schedNotice' = "error"
    /\ UNCHANGED <<data, loaded, fetch, form, savedKey>>
    /\ UNCHANGED outsideSched

\* PUT /schedules/{key} fails: onError raises the message and nothing else
SaveFails ==
    /\ pending # NoKey
    /\ pending' = NoKey
    /\ schedEvent' = "save_error"
    /\ schedNotice' = "error"
    /\ UNCHANGED <<data, loaded, fetch, form, isDirty, savedKey>>
    /\ UNCHANGED outsideSched

(***************************************************************************)
(* One save, from onFinish to the PUT: SchedulePage.tsx 50-61 (onSave) and *)
(* updateSchedule (the schedules API, pages/Products/SyncRunsPage.tsx      *)
(* 73-91), with the whole Schedule record of types/schedule.ts.            *)
(***************************************************************************)

\* label and updated_at are optional, and timezone is defaulted when falsy: "" stands
\* for a field that is missing, null or empty
Labels == {"", "Price reset"}
Timezones == {"", "Australia/Sydney", "Pacific/Auckland"}
Stamps == {"", "2025-01-01T00:00:00Z"}

\* type Schedule: the records GET /schedules may carry
ScheduleRecord ==
    {[key |-> k, label |-> l, enabled |-> e, day_of_week |-> d, hour |-> t[1],
      minute |-> t[2], every_2_weeks |-> w, timezone |-> z, updated_at |-> u] :
        k \in ScheduleKey, l \in Labels, e \in BOOLEAN, d \in DowValues, t \in Times,
        w \in BOOLEAN, z \in Timezones, u \in Stamps}

\* the values onFinish hands over: validation has passed
FormValues ==
    {[enabled |-> e, day_of_week |-> d, time |-> [hour |-> t[1], minute |-> t[2]]] :
        e \in BOOLEAN, d \in DowValues, t \in Times}

\* an updateSchedule that sends the payload as it is
updateScheduleSendingPayload(key, payload) ==
    [method |-> "PUT", url |-> <<"schedules", key>>, body |-> payload]

\* an updateSchedule that sends the timezone of the record as it is
updateScheduleWithoutDefault(key, payload) ==
    [method |-> "PUT",
     url |-> <<"schedules", key>>,
     body |-> [f \in DOMAIN payload \ {"label", "key", "updated_at"} |-> payload[f]]]

\* updateSchedule(key, payload): label, key and updated_at are taken out, the rest is
\* spread into the body, timezone: rest.timezone || 'Australia/Sydney'
updateSchedule(key, payload) ==
    LET rest == [f \in DOMAIN payload \ {"label", "key", "updated_at"} |-> payload[f]]
    IN  [method |-> "PUT",
         url |-> <<"schedules", key>>,
         body |-> [f \in DOMAIN rest |->
                     IF f = "timezone"
                     THEN (IF rest.timezone = "" THEN "Australia/Sydney" ELSE rest.timezone)
                     ELSE rest[f]]]

\* no save is being followed
IdleSave == saveFrom = <<>> /\ savePayload = <<>> /\ putSent = <<>>

\* a save of any record with any valid form values
InitSave ==
    /\ saveFrom \in [s : ScheduleRecord, values : FormValues]
    /\ savePayload = <<>>
    /\ putSent = <<>>

\* onFinish={(v) => onSave(initial, v)}: the payload is built and mutation.mutate called
OnFinish ==
    /\ savePayload = <<>>
    /\ savePayload' = <<onSave(saveFrom.s, saveFrom.values)>>
    /\ UNCHANGED <<saveFrom, putSent>>
    /\ UNCHANGED outsideSave

\* mutationFn: (payload) => updateSchedule(payload.key, payload), run once per mutate
MutationFn ==
    /\ savePayload # <<>>
    /\ putSent = <<>>
    /\ putSent' = Append(putSent, updateSchedule(savePayload[1].key, savePayload[1]))
    /\ UNCHANGED <<saveFrom, savePayload>>
    /\ UNCHANGED outsideSave

(***************************************************************************)
(* The summary of one artifact response: parseJobSummaryFromHeaders        *)
(* (download.ts 32-71) with all its fields, called as in                   *)
(* downloadKoganTemplateCSVByJob (download.ts 101-106).                    *)
(***************************************************************************)

\* JavaScript's undefined and null among the strings of a summary
Undef == "undefined"
Null == "null"

\* a value that `||` and `? :` take for false
FalsyText(v) == v \in {"", Undef, Null}

\* rec[f], undefined when the object has no such property
get(rec, f) == IF f \in DOMAIN rec THEN rec[f] ELSE Undef

\* a chain of `||`: the first operand that is not falsy, else the last one
RECURSIVE Or(_)
Or(operands) ==
    IF Len(operands) = 1 \/ ~FalsyText(operands[1]) THEN operands[1]
    ELSE Or(Tail(operands))

\* Number(text) for the texts a rows header carries
Number(text) ==
    CASE text = "0" -> 0
      [] text = "7" -> 7
      [] text = "" -> 0

HeaderNames ==
    {"x-kogan-export-job", "x-kogan-export-rows", "x-kogan-export-country",
     "x-kogan-export-status", "x-kogan-export-applied-at", "x-kogan-export-exported-at"}

\* the job ids and time stamps the model draws from
JobTexts == {"J1", "J2"}
StampText == "2025-03-01T02:00:00Z"

\* marks, while a response is put together, a header the server does not send
NotSent == "<not sent>"

\* the texts the server may send in a header; "" is a header sent without a value
HeaderTexts(name) ==
    CASE name = "x-kogan-export-job" -> {"", "J2"}
      [] name = "x-kogan-export-rows" -> {"", "0", "7"}
      [] name = "x-kogan-export-country" -> {"", "NZ"}
      [] name = "x-kogan-export-status" -> {"", "applied"}
      [] name = "x-kogan-export-applied-at" -> {"", StampText}
      [] name = "x-kogan-export-exported-at" -> {"", StampText}

\* res.headers: a header that is not sent is not a property of the object
ResponseHeaders ==
    LET Choices == [n \in HeaderNames |-> HeaderTexts(n) \cup {NotSent}]
    IN  {[n \in {m \in HeaderNames : ch[m] # NotSent} |-> ch[n]] :
            ch \in {c \in [HeaderNames -> UNION {Choices[n] : n \in HeaderNames}] :
                        \A n \in HeaderNames : c[n] \in Choices[n]}}

\* the baselines downloadKoganTemplateCSVByJob is called with: none (handleRedownload),
\* or the summary Create returned for job j (downloadKoganTemplateCSV), with the four
\* fields of KoganExportJobSummary or with status, time stamps and users as well
Baselines(j) ==
    {<<>>,
     [job_id |-> j, file_name |-> "kogan_AU.csv", row_count |-> 5, country_type |-> "AU"],
     [job_id |-> j, file_name |-> "kogan_NZ.csv", row_count |-> 0, country_type |-> "NZ",
      status |-> "exported", exported_at |-> StampText, applied_at |-> Null,
      created_by |-> "ops", applied_by |-> Null]}

\* the file name computed at download.ts 87 just before the headers are parsed
FileNameTexts == {"from-server.csv", "kogan_export.csv"}

\* { job_id: jobId, file_name: filename, ...baseline }
byJobFallback(jobId, filename, base) ==
    [f \in {"job_id", "file_name"} \cup DOMAIN base |->
        IF f \in DOMAIN base THEN base[f]
        ELSE IF f = "job_id" THEN jobId ELSE filename]

\* a parse that asks the fallback first and the header second
parseFallbackFirst(headers, fallback) ==
    LET rowCountRaw == get(fallback, "row_count")
        countryRaw == Or(<<get(fallback, "country_type"), get(headers, "x-kogan-export-country")>>)
        appliedAtRaw == Or(<<get(fallback, "applied_at"), get(headers, "x-kogan-export-applied-at")>>)
        exportedAtRaw == Or(<<get(fallback, "exported_at"), get(headers, "x-kogan-export-exported-at")>>)
    IN  [job_id |-> Or(<<get(fallback, "job_id"), get(headers, "x-kogan-export-job"), "">>),
         file_name |-> Or(<<get(fallback, "file_name"), "">>),
         row_count |-> IF "row_count" \in DOMAIN fallback THEN fallback.row_count
                       ELSE IF ~FalsyText(get(headers, "x-kogan-export-rows"))
                            THEN Number(headers["x-kogan-export-rows"]) ELSE 0,
         country_type |-> Or(<<countryRaw, "AU">>),
         status |-> Or(<<get(fallback, "status"), get(headers, "x-kogan-export-status"), "exported">>),
         exported_at |-> IF ~FalsyText(exportedAtRaw) THEN exportedAtRaw ELSE Null,
         applied_at |-> IF ~FalsyText(appliedAtRaw) THEN appliedAtRaw ELSE Null,
         created_by |-> IF "created_by" \in DOMAIN fallback THEN fallback.created_by ELSE Null,
         applied_by |-> IF "applied_by" \in DOMAIN fallback THEN fallback.applied_by ELSE Null]

\* parseJobSummaryFromHeaders(headers, fallback), every field of the summary
parseJobSummaryFields(headers, fallback) ==
    LET rowCountRaw == get(headers, "x-kogan-export-rows")
        countryRaw == Or(<<get(headers, "x-kogan-export-country"), get(fallback, "country_type")>>)
        appliedAtRaw == Or(<<get(headers, "x-kogan-export-applied-at"), get(fallback, "applied_at")>>)
        exportedAtRaw == Or(<<get(headers, "x-kogan-export-exported-at"), get(fallback, "exported_at")>>)
    IN  [job_id |-> Or(<<get(headers, "x-kogan-export-job"), get(fallback, "job_id"), "">>),
         file_name |-> Or(<<get(fallback, "file_name"), "">>),
         row_count |-> IF ~FalsyText(rowCountRaw) THEN Number(rowCountRaw)
                       ELSE IF "row_count" \in DOMAIN fallback THEN fallback.row_count ELSE 0,
         country_type |-> Or(<<Or(<<countryRaw, get(fallback, "country_type")>>), "AU">>),
         status |-> Or(<<get(headers, "x-kogan-export-status"), get(fallback, "status"), "exported">>),
         exported_at |-> IF ~FalsyText(exportedAtRaw) THEN exportedAtRaw ELSE Null,
         applied_at |-> IF ~FalsyText(appliedAtRaw) THEN appliedAtRaw ELSE Null,
         created_by |-> IF "created_by" \in DOMAIN fallback THEN fallback.created_by ELSE Null,
         applied_by |-> IF "applied_by" \in DOMAIN fallback THEN fallback.applied_by ELSE Null]

\* no artifact response is being followed
IdleParse == parseIn = <<>> /\ parsed = <<>>

\* any artifact response to any call of downloadKoganTemplateCSVByJob
InitParse ==
    /\ parseIn \in
          UNION {[jobId : {j}, filename : FileNameTexts, baseline : Baselines(j),
                  headers : ResponseHeaders] : j \in JobTexts}
    /\ parsed = <<>>

\* download.ts 101-106: the summary is parsed from the headers of the response
ParseSummary ==
    /\ parsed = <<>>
    /\ parsed' = <<parseJobSummaryFields(parseIn.headers,
                      byJobFallback(parseIn.jobId, parseIn.filename, parseIn.baseline))>>
    /\ UNCHANGED parseIn
    /\ UNCHANGED outsideParse

(***************************************************************************)
(* The name of one downloaded file: downloadKoganTemplateCSVByJob,         *)
(* download.ts 84-99.  A file name is a sequence of characters; "%41" is   *)
(* an escape (of "A") and "%" a percent sign that begins no escape.        *)
(***************************************************************************)
NameChars == {"a", "%41", "%"}

\* the texts a filename parameter may carry, the empty one included
RawNames == UNION {[1..n -> NameChars] : n \in 0..MaxNameLen}

\* res.headers["content-disposition"]: not sent, or `attachment; filename="raw"`, or
\* `attachment; filename*=UTF-8''raw` (star); an empty raw is a header without a name
ContentDispositions ==
    {[sent |-> FALSE, star |-> FALSE, raw |-> <<>>]}
    \cup {[sent |-> TRUE, star |-> b, raw |-> r] : b \in BOOLEAN, r \in RawNames}

\* a name made from a country and a time stamp, as a Create response may carry it
CountryStampName(country, stamp) == <<"kogan_", country, "_", stamp, ".csv">>

\* the fallbackFileName argument: undefined or empty, or the job's file_name
FallbackFileNames == {<<>>, CountryStampName("AU", "20250301")}

\* cd.match(/filename\*?=(?:UTF-8'')?"?([^";]+)"?/i)?.[1]: the capture needs one
\* character at least; <<>> stands for no match
filenameMatch(cd) == IF cd.sent THEN cd.raw ELSE <<>>

\* decodeURIComponent throws URIError on a "%" that begins no escape
decodeThrows(text) == \E i \in 1..Len(text) : text[i] = "%"

\* decodeURIComponent(text), character by character
RECURSIVE decodeURIComponent(_)
decodeURIComponent(text) ==
    IF text = <<>> THEN <<>>
    ELSE <<IF Head(text) = "%41" THEN "A" ELSE Head(text)>>
         \o decodeURIComponent(Tail(text))

\* a naming that prefers the caller's file name to the server's
fileNameFallbackFirst(cd, fallbackFileName, jobId) ==
    LET match == filenameMatch(cd)
        serverFilename == IF match # <<>> THEN decodeURIComponent(match) ELSE <<>>
    IN  IF fallbackFileName # <<>> THEN fallbackFileName
        ELSE IF serverFilename # <<>> THEN serverFilename
        ELSE <<"kogan_export_", jobId, ".csv">>

\* const filename = serverFilename || fallbackFileName || `kogan_export_${jobId}.csv`
fileName(cd, fallbackFileName, jobId) ==
    LET match == filenameMatch(cd)
        serverFilename == IF match # <<>> THEN decodeURIComponent(match) ELSE <<>>
    IN  IF serverFilename # <<>> THEN serverFilename
        ELSE IF fallbackFileName # <<>> THEN fallbackFileName
        ELSE <<"kogan_export_", jobId, ".csv">>

\* no file is being named
IdleName == nameIn = <<>> /\ saved = <<>> /\ nameThrew = FALSE

\* any artifact response to any call of downloadKoganTemplateCSVByJob
InitName ==
    /\ nameIn \in [jobId : JobTexts, fallbackFileName : FallbackFileNames,
                    cd : ContentDispositions]
    /\ saved = <<>>
    /\ nameThrew = FALSE

\* download.ts 84-99: the name is computed and the file saved under it (a.download)
SaveFile ==
    /\ saved = <<>> /\ ~nameThrew
    /\ ~decodeThrows(filenameMatch(nameIn.cd))
    /\ saved' = <<fileName(nameIn.cd, nameIn.fallbackFileName, nameIn.jobId)>>
    /\ UNCHANGED <<nameIn, nameThrew>>
    /\ UNCHANGED outsideName

\* download.ts 86: decodeURIComponent throws, downloadKoganTemplateCSVByJob rejects
DecodeThrows ==
    /\ saved = <<>> /\ ~nameThrew
    /\ decodeThrows(filenameMatch(nameIn.cd))
    /\ nameThrew' = TRUE
    /\ UNCHANGED <<nameIn, saved>>
    /\ UNCHANGED outsideName

(***************************************************************************)
(* The axios instance and its request interceptor: api/http.ts as held in  *)
(* src/unnamed/part_002, 13-41.  A url is an origin ("" when relative), a  *)
(* path (its segments) and whether a query string follows.                 *)
(***************************************************************************)

\* axios.create({ timeout: 30000 })
DefaultTimeout == 30000

LONG_TIMEOUT_MS == 120000

\* config.timeout when nothing sets it
NoTimeout == -1

\* the timeouts a config may carry into the interceptor: the instance default
\* unless the call sets its own
ConfigTimeouts ==
    {NoTimeout, 0, DefaultTimeout, LONG_TIMEOUT_MS, LONG_TIMEOUT_MS + DefaultTimeout}

\* the ids an apply url is built from (`undefined` when the job has none)
UrlJobIds == JobTexts \cup {Undef}

\* the paths requests are sent to: those of api/download.ts, the path-style download
\* of a job, the schedules, products and auth paths, and paths close to the matched ones
RequestPaths ==
    {<<"kogan-template", "export">>, <<"kogan-template", "download">>,
     <<"kogan-template">>, <<"kogan-template", "exports">>,
     <<"schedules">>, <<"products">>, <<"products", "export">>, <<"auth", "me">>}
    \cup {<<"schedules", k>> : k \in ScheduleKey}
    \cup UNION {{<<"kogan-template", "export", j, "apply">>,
                 <<"kogan-template", "export", j, "download">>,
                 <<"kogan-template", "export", j>>,
                 <<"kogan-template", "export", j, "apply", "log">>} : j \in UrlJobIds}

RequestUrls ==
    [origin : {"", "http://local"}, path : RequestPaths, query : BOOLEAN]

\* new URL(rawUrl, 'http://local'): pathname + search, the origin is dropped
normalize(url) == [path |-> url.path, query |-> url.query]

\* a regular expression anchored at ^\/ is tried on `normalized`, which begins with
\* the path; (?:$|\?) lets a query string follow
matchesPath(normalized, pattern) ==
    /\ Len(normalized.path) = Len(pattern)
    /\ \A i \in 1..Len(pattern) :
          IF pattern[i] = "[^/]+" THEN normalized.path[i] # ""
          ELSE normalized.path[i] = pattern[i]

\* matchers that leave out the apply path
LONG_TIMEOUT_MATCHERS_WITHOUT_APPLY ==
    {<<"kogan-template", "export">>,
     <<"kogan-template", "download">>,
     <<"kogan-template", "export", "[^/]+", "download">>}

LONG_TIMEOUT_MATCHERS ==
    {<<"kogan-template", "export">>,
     <<"kogan-template", "download">>,
     <<"kogan-template", "export", "[^/]+", "download">>,
     <<"kogan-template", "export", "[^/]+", "apply">>}

\* Math.max(config.timeout ?? 0, LONG_TIMEOUT_MS)
maxTimeout(timeout) ==
    LET t == IF timeout = NoTimeout THEN 0 ELSE timeout
    IN  IF t > LONG_TIMEOUT_MS THEN t ELSE LONG_TIMEOUT_MS

\* http.interceptors.request.use((config) => ...): the config it returns
interceptor(cfg) ==
    IF \E match \in LONG_TIMEOUT_MATCHERS : matchesPath(normalize(cfg.url), match)
    THEN [cfg EXCEPT !.timeout = maxTimeout(cfg.timeout)]
    ELSE cfg

\* no request is being followed
IdleHttp == config = <<>> /\ sent = <<>>

\* a request to any url with any timeout
InitHttp ==
    /\ config \in [url : RequestUrls, timeout : ConfigTimeouts]
    /\ sent = <<>>

\* the request passes the interceptor and is sent
Intercept ==
    /\ sent = <<>>
    /\ sent' = <<interceptor(config)>>
    /\ UNCHANGED config
    /\ UNCHANGED outsideHttp

(***************************************************************************)
(* Freight config page: pages/Freight/FreightCalParamConfig.tsx,           *)
(* api/freightConfig.ts                                                    *)
(***************************************************************************)
\* the largest value a config field takes in the model
MaxValue == 1

\* two of the fields of SECTIONS, each a required InputNumber
FreightConfigKey == {"adjust_rate", "cubic_factor"}
Values == 0 .. MaxValue

\* the value of an InputNumber that was cleared (null)
Cleared == -1

\* the flat config object the server answers with
FreightConfig == [FreightConfigKey -> Values]

\* `data || ({} as FreightConfig)`
origOf(d) == IF d = <<>> THEN [k \in {} |-> 0] ELSE d[1]

\* a makePatch that submits the whole form
makePatchOfEverything(latest, orig) == latest

\* makePatch: the keys of `latest` whose value is not (!==) that of `orig`, with the
\* value of `latest`; a key `orig` lacks reads undefined there and so differs
makePatch(latest, orig) ==
    [k \in {f \in DOMAIN latest : f \notin DOMAIN orig \/ latest[f] # orig[f]} |-> latest[k]]

\* updateFreightConfig(patch): http.patch(PREFIX, patch)
updateFreightConfig(patch) == [method |-> "PATCH", url |-> "/freight-config", body |-> patch]

\* form.validateFields(): every field has the rule `required`
validateFields(values) == \A k \in DOMAIN values : values[k] # Cleared

\* the page is mounted: nothing cached, the first GET in flight, an empty form
InitFreight ==
    /\ freightData = <<>>
    /\ freightFetch = TRUE
    /\ freightForm = [k \in FreightConfigKey |-> Cleared]
    /\ freightSaving = FALSE
    /\ freightPatch = <<>>
    /\ freightSaved = <<>>
    /\ freightEvent = "none"

\* a GET /freight-config answers; react-query keeps the old object when the answer
\* is equal to it (structural sharing), so the effect `if (data)
\* form.setFieldsValue(data)` runs only when the config changed
ConfigArrives(cfg) ==
    /\ freightFetch
    /\ freightFetch' = FALSE
    /\ freightData' = <<cfg>>
    /\ freightForm' = IF freightData = <<cfg>> THEN freightForm ELSE cfg
    /\ freightEvent' = "loaded"
    /\ UNCHANGED <<freightSaving, freightPatch, freightSaved>>
    /\ UNCHANGED outsideFreight

\* the GET fails for good: data stays what it was
ConfigFails ==
    /\ freightFetch
    /\ freightFetch' = FALSE
    /\ freightEvent' = "load_error"
    /\ UNCHANGED <<freightData, freightForm, freightSaving, freightPatch, freightSaved>>
    /\ UNCHANGED outsideFreight

\* the Reload button: refetch()
Reload ==
    /\ ~freightFetch
    /\ freightFetch' = TRUE
    /\ freightEvent' = "reload"
    /\ UNCHANGED <<freightData, freightForm, freightSaving, freightPatch, freightSaved>>
    /\ UNCHANGED outsideFreight

\* the user types into (or clears) an InputNumber; the inputs stay editable while a
\* save is in flight
EditField(k, v) ==
    /\ freightForm[k] # v
    /\ freightForm' = [freightForm EXCEPT ![k] = v]
    /\ freightEvent' = "edit"
    /\ UNCHANGED <<freightData, freightFetch, freightSaving, freightPatch, freightSaved>>
    /\ UNCHANGED outsideFreight

\* onReset: `if (data) form.setFieldsValue(data)`
onReset ==
    /\ freightForm' = IF freightData # <<>> THEN freightData[1] ELSE freightForm
    /\ freightEvent' = "reset"
    /\ UNCHANGED <<freightData, freightFetch, freightSaving, freightPatch, freightSaved>>
    /\ UNCHANGED outsideFreight

\* onSave up to its request: validation, makePatch, the no-change return, then
\* setSaving(true) and updateFreightConfig(patch). The Save button takes no click
\* while `saving` is true.
onSaveConfig ==
    /\ ~freightSaving
    /\ IF ~validateFields(freightForm)
       THEN /\ freightEvent' = "invalid"
            /\ UNCHANGED <<freightSaving, freightPatch>>
       ELSE LET patch == makePatch(freightForm, origOf(freightData)) IN
            IF DOMAIN patch = {}
            THEN /\ freightEvent' = "no_change"
                 /\ UNCHANGED <<freightSaving, freightPatch>>
            ELSE /\ freightSaving' = TRUE
                 /\ freightPatch' = <<updateFreightConfig(patch)>>
                 /\ freightEvent' = "patch"
    /\ UNCHANGED <<freightData, freightFetch, freightForm, freightSaved>>
    /\ UNCHANGED outsideFreight

\* a save that puts the answer in the cache but not in the form
PatchSucceedsCacheOnly(cfg) ==
    /\ freightPatch # <<>>
    /\ freightData' = <<cfg>>
    /\ freightSaved' = <<cfg>>
    /\ freightSaving' = FALSE
    /\ freightPatch' = <<>>
    /\ freightEvent' = "saved"
    /\ UNCHANGED <<freightFetch, freightForm>>
    /\ UNCHANGED outsideFreight

\* the PATCH answers with the saved config: qc.setQueryData, form.setFieldsValue,
\* and the finally
PatchSucceeds(cfg) ==
    /\ freightPatch # <<>>
    /\ freightData' = <<cfg>>
    /\ freightForm' = cfg
    /\ freightSaved' = <<cfg>>
    /\ freightSaving' = FALSE
    /\ freightPatch' = <<>>
    /\ freightEvent' = "saved"
    /\ UNCHANGED freightFetch
    /\ UNCHANGED outsideFreight

\* the PATCH is rejected: the empty catch, and the finally
PatchFails ==
    /\ freightPatch # <<>>
    /\ freightSaving' = FALSE
    /\ freightPatch' = <<>>
    /\ freightEvent' = "patch_error"
    /\ UNCHANGED <<freightData, freightFetch, freightForm, freightSaved>>
    /\ UNCHANGED outsideFreight

(***************************************************************************)
(* Application shell: app/App.tsx, app/routes.tsx, pages/LoginPage.tsx,    *)
(* components/UserMenu.tsx                                                 *)
(***************************************************************************)
\* the routes under AppLayout
LayoutPaths ==
    {"/dashboard", "/products", "/sync-runs", "/schedules", "/freight-results",
     "/freight-config", "/download/kogan-template", "/shopify-jobs"}

\* the paths the router knows
Paths == {"/", "/login"} \cup LayoutPaths

\* an App that does not wait for the check
AppWithoutWaiting(c, authed, path) ==
    IF ~authed /\ path # "/login" THEN "to_login"
    ELSE IF authed /\ path = "/login" THEN "to_home"
    ELSE "router"

\* what App returns: the spinner until the check has settled, then null with a
\* redirect (window.location.href = ...), or the RouterProvider
App(c, authed, path) ==
    IF ~c THEN "spin"
    ELSE IF ~authed /\ path # "/login" THEN "to_login"
    ELSE IF authed /\ path = "/login" THEN "to_home"
    ELSE "router"

\* a document is loaded at path p: App is mounted with its initial state, renders,
\* and its effect calls me(); whatever the old document awaited is gone
loadPage(p) ==
    /\ pathname' = p
    /\ checked' = FALSE
    /\ isAuthed' = FALSE
    /\ meCall' = "pending"
    /\ view' = App(FALSE, FALSE, p)
    /\ loginCall' = FALSE
    /\ logoutCall' = FALSE

\* React renders App again when a setState changed its state
rerender(c, authed) ==
    view' = IF <<c, authed>> # <<checked, isAuthed>> THEN App(c, authed, pathname) ELSE view

\* the site is opened at its root
InitAuth ==
    /\ pathname = "/"
    /\ checked = FALSE
    /\ isAuthed = FALSE
    /\ meCall = "pending"
    /\ view = "spin"
    /\ loginCall = FALSE
    /\ logoutCall = FALSE
    /\ authEvent = "load"

\* the user opens (or reloads) a URL of the site; a redirect that App has asked for
\* is already under way and comes first
OpenUrl(p) ==
    /\ view \notin {"to_login", "to_home"}
    /\ loadPage(p)
    /\ authEvent' = "load"
    /\ UNCHANGED outsideAuth

\* me() resolves: .then(() => setIsAuthed(true))
MeResolves ==
    /\ meCall = "pending"
    /\ meCall' = "then"
    /\ isAuthed' = TRUE
    /\ rerender(checked, TRUE)
    /\ authEvent' = "me_ok"
    /\ UNCHANGED <<pathname, checked, loginCall, logoutCall>>
    /\ UNCHANGED outsideAuth

\* me() is rejected: .catch(() => setIsAuthed(false))
MeRejects ==
    /\ meCall = "pending"
    /\ meCall' = "caught"
    /\ isAuthed' = FALSE
    /\ rerender(checked, FALSE)
    /\ authEvent' = "me_failed"
    /\ UNCHANGED <<pathname, checked, loginCall, logoutCall>>
    /\ UNCHANGED outsideAuth

\* .finally(() => setChecked(true)), and the render that follows
MeFinally ==
    /\ meCall \in {"then", "caught"}
    /\ meCall' = "done"
    /\ checked' = TRUE
    /\ rerender(TRUE, isAuthed)
    /\ authEvent' = "checked"
    /\ UNCHANGED <<pathname, isAuthed, loginCall, logoutCall>>
    /\ UNCHANGED outsideAuth

\* the assignment to window.location.href made while rendering takes effect
Redirected ==
    /\ view \in {"to_login", "to_home"}
    /\ loadPage(IF view = "to_login" THEN "/login" ELSE "/")
    /\ authEvent' = "redirected"
    /\ UNCHANGED outsideAuth

\* { path: '/', element: <Navigate to="/dashboard" replace /> }
IndexNavigates ==
    /\ view = "router"
    /\ pathname = "/"
    /\ pathname' = "/dashboard"
    /\ authEvent' = "navigate"
    /\ UNCHANGED <<checked, isAuthed, meCall, view, loginCall, logoutCall>>
    /\ UNCHANGED outsideAuth

\* a menu item of AppLayout: nav(key) inside the router, App is not rendered again
MenuNavigates(p) ==
    /\ view = "router"
    /\ pathname \in LayoutPaths
    /\ p # pathname
    /\ pathname' = p
    /\ authEvent' = "navigate"
    /\ UNCHANGED <<checked, isAuthed, meCall, view, loginCall, logoutCall>>
    /\ UNCHANGED outsideAuth

\* LoginPage onFinish up to `await login(values)`
LoginSubmit ==
    /\ view = "router"
    /\ pathname = "/login"
    /\ ~loginCall
    /\ loginCall' = TRUE
    /\ authEvent' = "login"
    /\ UNCHANGED <<pathname, checked, isAuthed, meCall, view, logoutCall>>
    /\ UNCHANGED outsideAuth

\* login resolves: navigate("/", { replace: true })
LoginSucceeds ==
    /\ loginCall
    /\ loginCall' = FALSE
    /\ pathname' = "/"
    /\ authEvent' = "login_ok"
    /\ UNCHANGED <<checked, isAuthed, meCall, view, logoutCall>>
    /\ UNCHANGED outsideAuth

\* login is rejected: the error message, the page stays
LoginFails ==
    /\ loginCall
    /\ loginCall' = FALSE
    /\ authEvent' = "login_error"
    /\ UNCHANGED <<pathname, checked, isAuthed, meCall, view, logoutCall>>
    /\ UNCHANGED outsideAuth

\* UserMenu "Sign out" up to `await logout()`
SignOut ==
    /\ view = "router"
    /\ pathname \in LayoutPaths
    /\ ~logoutCall
    /\ logoutCall' = TRUE
    /\ authEvent' = "logout"
    /\ UNCHANGED <<pathname, checked, isAuthed, meCall, view, loginCall>>
    /\ UNCHANGED outsideAuth

\* logout settles either way: finally { window.location.href = "/login" }
SignedOut ==
    /\ logoutCall
    /\ loadPage("/login")
    /\ authEvent' = "signed_out"
    /\ UNCHANGED outsideAuth

(***************************************************************************)
(* Products page: pages/Products/ProductsPage.tsx, api/products.ts         *)
(***************************************************************************)
\* the last page of the table the model turns to
MaxPage == 2

\* An optional value is <<>> when undefined and <<v>> when it is v.
\* what the SKU input may hold: nothing, blanks, a code
SkuTexts == {"", " ", "V952"}

\* the options of the tags Select (the tag list of the server) and the arrays a
\* multiple Select may hold, in the order the tags were picked
TagOptions == {"au", "nz"}
TagArrays ==
    {<<>>} \cup {<<t>> : t \in TagOptions}
           \cup {a \in TagOptions \X TagOptions : a[1] # a[2]}

\* String.prototype.trim on the texts of the model
trim(text) == IF text = " " THEN "" ELSE text

\* Array.prototype.join(','): the pieces of the resulting string
RECURSIVE join(_)
join(arr) ==
    IF Len(arr) = 0 THEN <<>>
    ELSE IF Len(arr) = 1 THEN <<arr[1]>>
    ELSE <<arr[1], ",">> \o join(Tail(arr))

\* `sku || undefined`
skuOrUndefined(sku) == IF sku # <<>> /\ sku[1] # "" THEN sku ELSE <<>>

\* `tags?.length` / `tags && tags.length` is truthy
hasLength(tags) == tags # <<>> /\ Len(tags[1]) > 0

\* `criteria.tags && criteria.tags.length ? criteria.tags.join(',') : undefined`
tagParam(tags) == IF hasLength(tags) THEN <<join(tags[1])>> ELSE <<>>

\* the useMemo params of the list query (page_size is left at its 20)
listParams(p, c) == [page |-> p, sku |-> skuOrUndefined(c.sku), tag |-> tagParam(c.tags)]

\* the params handleDownload hands to exportProductsCsv
exportParams(c) == [sku |-> skuOrUndefined(c.sku), tag |-> tagParam(c.tags)]

\* useState({})
NoCriteria == [sku |-> <<>>, tags |-> <<>>]

\* the requests a handler causes that does setPage(p); setCriteria(c); refetch():
\* refetch() is the one of the rendered query, so it asks again with the params
\* rendered so far, and the render that follows asks with the new key if it differs
commit(p, c) ==
    /\ page' = p
    /\ criteria' = c
    /\ listRequests' = {listParams(page, criteria), listParams(p, c)}

\* onFormValuesChange(_, all) for the form values `all`
onFormValuesChange(all) ==
    LET emptySku == all.sku = <<>> \/ all.sku[1] = "" \/ trim(all.sku[1]) = ""
        emptyTags == ~hasLength(all.tags)
        criteriaIsEmpty == skuOrUndefined(criteria.sku) = <<>> /\ ~hasLength(criteria.tags)
    IN  IF emptySku /\ emptyTags /\ ~criteriaIsEmpty
        THEN commit(1, NoCriteria) /\ prodEvent' = "cleared"
        ELSE UNCHANGED <<page, criteria>> /\ listRequests' = {} /\ prodEvent' = "edit"

\* the page is mounted: an empty form, no criteria, page 1, the first list request
InitProducts ==
    /\ searchForm = [sku |-> <<>>, tags |-> <<>>]
    /\ criteria = NoCriteria
    /\ page = 1
    /\ downloading = FALSE
    /\ listRequests = {listParams(1, NoCriteria)}
    /\ exportRequest = <<>>
    /\ prodEvent = "none"

\* the user types into the SKU input or clears it; onValuesChange follows
EditSku(text) ==
    /\ searchForm.sku # <<text>>
    /\ searchForm' = [searchForm EXCEPT !.sku = <<text>>]
    /\ onFormValuesChange(searchForm')
    /\ UNCHANGED <<downloading, exportRequest>>
    /\ UNCHANGED outsideProducts

\* the user picks or removes tags or clears the Select; onValuesChange follows
EditTags(arr) ==
    /\ searchForm.tags # <<arr>>
    /\ searchForm' = [searchForm EXCEPT !.tags = <<arr>>]
    /\ onFormValuesChange(searchForm')
    /\ UNCHANGED <<downloading, exportRequest>>
    /\ UNCHANGED outsideProducts

\* onSearch (the form's onFinish)
onSearch ==
    /\ commit(1, [sku |-> skuOrUndefined(searchForm.sku),
                  tags |-> IF hasLength(searchForm.tags) THEN searchForm.tags ELSE <<>>])
    /\ prodEvent' = "search"
    /\ UNCHANGED <<searchForm, downloading, exportRequest>>
    /\ UNCHANGED outsideProducts

\* the Reset button: form.resetFields(); setPage(1); setCriteria({}); refetch()
ResetFilters ==
    /\ searchForm' = [sku |-> <<>>, tags |-> <<>>]
    /\ commit(1, NoCriteria)
    /\ prodEvent' = "reset"
    /\ UNCHANGED <<downloading, exportRequest>>
    /\ UNCHANGED outsideProducts

\* pagination.onChange: setPage(p) (the page size is left alone)
PageChange(p) ==
    /\ p # page
    /\ page' = p
    /\ listRequests' = {listParams(p, criteria)}
    /\ prodEvent' = "page"
    /\ UNCHANGED <<searchForm, criteria, downloading, exportRequest>>
    /\ UNCHANGED outsideProducts

\* a Download CSV that reads the form
DownloadCsvOfForm ==
    /\ ~downloading
    /\ downloading' = TRUE
    /\ exportRequest' = <<exportParams(searchForm)>>
    /\ listRequests' = {}
    /\ prodEvent' = "export"
    /\ UNCHANGED <<searchForm, criteria, page>>
    /\ UNCHANGED outsideProducts

\* handleDownload of ProductsPage up to `await exportProductsCsv(p)`; the button
\* takes no click while `downloading` is true
DownloadCsv ==
    /\ ~downloading
    /\ downloading' = TRUE
    /\ exportRequest' = <<exportParams(criteria)>>
    /\ listRequests' = {}
    /\ prodEvent' = "export"
    /\ UNCHANGED <<searchForm, criteria, page>>
    /\ UNCHANGED outsideProducts

\* exportProductsCsv settles either way: finally { setDownloading(false) }
ExportSettles ==
    /\ exportRequest # <<>>
    /\ downloading' = FALSE
    /\ exportRequest' = <<>>
    /\ listRequests' = {}
    /\ prodEvent' = "export_done"
    /\ UNCHANGED <<searchForm, criteria, page>>
    /\ UNCHANGED outsideProducts

(***************************************************************************)
(* Specifications                                                          *)
(***************************************************************************)
vars == <<exportVars, schedVars, saveVars, parseVars, nameVars, httpVars, pageVars>>

\* every page as it is mounted
InitPages == InitExport /\ InitSched /\ InitFreight /\ InitAuth /\ InitProducts

Init == InitPages /\ IdleSave /\ IdleParse /\ IdleName /\ IdleHttp

ExportStep(c) ==
    \/ HandleDownload(c)
    \/ CreateFails(c)
    \/ CreateNoDirty(c)
    \/ CreateExported(c)
    \/ DownloadFetched(c)
    \/ DownloadFetchFails(c)
    \/ HandleRedownload(c)
    \/ RedownloadFetched(c)
    \/ RedownloadFails(c)
    \/ HandleApply(c)
    \/ ApplySucceeds(c)
    \/ ApplyFails(c)

Next == \E c \in CountryType : ExportStep(c)

\* the Kogan template download page
Spec == Init /\ [][Next]_vars

\* the pending request of handler `op` of country c settles: it resolves, is rejected
\* or times out (the http client's timeout rejects it), and the handler runs on
RequestSettles(c, op) ==
    CASE op = "download" ->
            \/ CreateFails(c) \/ CreateNoDirty(c) \/ CreateExported(c)
            \/ DownloadFetched(c) \/ DownloadFetchFails(c)
      [] op = "redownload" -> RedownloadFetched(c) \/ RedownloadFails(c)
      [] op = "apply" -> ApplySucceeds(c) \/ ApplyFails(c)

\* the steps of the page while the server has exported at most MaxLiveJobs jobs per
\* country: the busy flags do not depend on which job a request is about
NextLive ==
    \E c \in CountryType :
        /\ ExportStep(c)
        /\ Cardinality(created'[c]) <= MaxLiveJobs

\* the download page when every request eventually settles
LiveSpec ==
    /\ Init /\ [][NextLive]_vars
    /\ \A c \in CountryType, op \in OpKeys : WF_vars(RequestSettles(c, op))

SchedStep(k) ==
    \/ ToggleEnabled(k)
    \/ SelectDow(k)
    \/ PickTime(k)
    \/ ClearTime(k)
    \/ Submit(k)
    \/ SubmitInvalid(k)

NextSched ==
    \/ ListArrives
    \/ ListFails
    \/ SaveSucceeds
    \/ SaveFails
    \/ \E k \in ScheduleKey : SchedStep(k)

\* the schedules page
SchedSpec == Init /\ [][NextSched]_vars

InitSaveSpec == InitPages /\ InitSave /\ IdleParse /\ IdleName /\ IdleHttp

NextSave == OnFinish \/ MutationFn

\* one save of the schedules page, from any record and any valid form values
SaveSpec == InitSaveSpec /\ [][NextSave]_vars

InitParseSpec == InitPages /\ IdleSave /\ InitParse /\ IdleName /\ IdleHttp

NextParse == ParseSummary

\* the summary of one artifact response, from any headers and any fallback
ParseSpec == InitParseSpec /\ [][NextParse]_vars

InitNameSpec == InitPages /\ IdleSave /\ IdleParse /\ InitName /\ IdleHttp

NextName == SaveFile \/ DecodeThrows

\* the name of one downloaded file, from any content-disposition and any fallback
NameSpec == InitNameSpec /\ [][NextName]_vars

NextFreight ==
    \/ \E cfg \in FreightConfig : ConfigArrives(cfg)
    \/ ConfigFails
    \/ Reload
    \/ \E k \in FreightConfigKey, v \in Values \cup {Cleared} : EditField(k, v)
    \/ onReset
    \/ onSaveConfig
    \/ \E cfg \in FreightConfig : PatchSucceeds(cfg)
    \/ PatchFails

\* the freight config page
FreightSpec == Init /\ [][NextFreight]_vars

NextAuth ==
    \/ \E p \in Paths : OpenUrl(p)
    \/ MeResolves
    \/ MeRejects
    \/ MeFinally
    \/ Redirected
    \/ IndexNavigates
    \/ \E p \in LayoutPaths : MenuNavigates(p)
    \/ LoginSubmit
    \/ LoginSucceeds
    \/ LoginFails
    \/ SignOut
    \/ SignedOut

\* the application shell: the authentication gate and the navigation around it
AuthSpec == Init /\ [][NextAuth]_vars

NextProducts ==
    \/ \E text \in SkuTexts : EditSku(text)
    \/ \E arr \in TagArrays : EditTags(arr)
    \/ onSearch
    \/ ResetFilters
    \/ \E p \in 1 .. MaxPage : PageChange(p)
    \/ DownloadCsv
    \/ ExportSettles

\* the products page
ProductsSpec == Init /\ [][NextProducts]_vars

InitHttpSpec == InitPages /\ IdleSave /\ IdleParse /\ IdleName /\ InitHttp

NextHttp == Intercept

\* one request through the interceptor, to any url with any timeout
HttpSpec == InitHttpSpec /\ [][NextHttp]_vars

(***************************************************************************)
(* Properties of the export lifecycle                                      *)
(***************************************************************************)

\* handler `op` of country c stops awaiting in this step
Settles(c, op) == pc[c][op].at # "idle" /\ pc'[c][op].at = "idle"

\* handler `op` of country c sends a request in this step
Issues(c, op) == pc'[c][op].at # "idle" /\ pc'[c][op] # pc[c][op]

\* C1: when the Create request issued by Download answers no_dirty_sku, the
\* tracked job of that country stays as it was and no download-by-job request
\* is issued.
C1_NoDirtyShortCircuit ==
    [][\A c \in CountryType :
          (pc[c].download.at = "create" /\ Settles(c, "download") /\ event' = "no_dirty")
          => /\ jobs'[c] = jobs[c]
             /\ \A op \in OpKeys : ~Issues(c, op)]_vars

\* C2: when the Download action ends after its Create returned an exported
\* job (whether the artifact download succeeded or failed) the country's
\* tracked job is non-null; when an Apply succeeds the tracked job is null.
C2_ExportStateTransition ==
    [][\A c \in CountryType :
          /\ (pc[c].download.at = "fetch" /\ Settles(c, "download")) => ~Falsy(jobs'[c])
          /\ (Settles(c, "apply") /\ event' = "apply_ok") => Falsy(jobs'[c])]_vars

\* C3: while no job is tracked for a country, Apply and Redownload send no
\* request for it; the guarded call changes neither the tracked jobs nor any
\* busy flag and only raises a warning.
C3_GuardOnApplyAndRedownload ==
    [][/\ \A c \in CountryType :
            Falsy(jobs[c]) => ~Issues(c, "apply") /\ ~Issues(c, "redownload")
       /\ event' \in {"guard_apply", "guard_redownload"}
            => /\ \E c \in CountryType : Falsy(jobs[c])
               /\ jobs' = jobs
               /\ loadingMap' = loadingMap
               /\ pc' = pc
               /\ notice' = "warning"]_vars

\* C3 witness: Apply was invoked for a country before any Create for it
C3_Witness ==
    \E c \in CountryType :
        event = "guard_apply" /\ Falsy(jobs[c]) /\ created[c] = {} /\ notice = "warning"

\* C4: every download-by-job and apply request in flight for a country carries
\* a job_id that a completed Create for that country returned.
C4_CreateBeforeUse ==
    \A c \in CountryType :
        /\ pc[c].download.at = "fetch" => pc[c].download.id \in created[c]
        /\ pc[c].redownload.at = "fetch" => pc[c].redownload.id \in created[c]
        /\ pc[c].apply.at = "apply" => pc[c].apply.id \in created[c]

\* the error responses handler `op` may consume
ErrorsOf(op) ==
    IF op = "download" THEN {"create_error", "fetch_error"}
    ELSE IF op = "redownload" THEN {"refetch_error"}
    ELSE {"apply_error"}

\* C10: when a download, redownload or apply request fails, the busy flag of
\* that operation and country is false afterwards, the country's tracked job
\* is what it was, and an error is raised.
C10_FailedExportOperation ==
    [][\A c \in CountryType, op \in OpKeys :
          (Settles(c, op) /\ event' \in ErrorsOf(op))
          => /\ loadingMap'[c][op] = FALSE
             /\ jobs'[c] = jobs[c]
             /\ notice' = "error"]_vars

\* C10 witness: an apply failed while a job was tracked; it can be retried
C10_Witness ==
    \E c \in CountryType :
        event = "apply_error" /\ ~Falsy(jobs[c]) /\ ~loadingMap[c].apply

\* C11 (country independence): whatever a step does (a download, redownload or
\* apply starting, going on, succeeding or failing, in any interleaving), the
\* tracked job and the three busy flags of a country change only in steps of that
\* country's own handlers; a step on one country leaves the other country's alone.
C11_CountryIndependence ==
    [][\A c, o \in CountryType :
          (c # o /\ (pc'[c] # pc[c] \/ pc'[o] = pc[o]))
          => (jobs'[o] = jobs[o] /\ loadingMap'[o] = loadingMap[o])]_vars

\* C11 witness: an apply on one country has just cleared its job while the other
\* country keeps its tracked job and a redownload of it in flight
C11_Witness ==
    \E c, o \in CountryType :
        /\ c # o
        /\ event = "apply_ok" /\ Falsy(jobs[c]) /\ created[c] # {}
        /\ jobs[o].job_id \in JobIds
        /\ loadingMap[o].redownload /\ pc[o].redownload.at = "fetch"

\* C12 (redownload idempotence): no step of handleRedownload (its start, its guard,
\* its success, its failure), however often repeated, changes any tracked job, and
\* none issues a Create or an Apply request.
C12_RedownloadIdempotence ==
    [][\A c \in CountryType :
          (pc'[c].redownload # pc[c].redownload \/ event' = "guard_redownload")
          => /\ jobs' = jobs
             /\ ~Issues(c, "download")
             /\ ~Issues(c, "apply")
             /\ created' = created]_vars

\* C12 witness: a redownload has just succeeded and every country still tracks a job
C12_Witness ==
    /\ event = "refetch_ok"
    /\ \A c \in CountryType : jobs[c].job_id \in JobIds /\ ~loadingMap[c].redownload

\* the await at which a handler first suspends
FirstAwait(op) ==
    CASE op = "download" -> "create"
      [] op = "redownload" -> "fetch"
      [] op = "apply" -> "apply"

\* a click on the button of (c, op) is accepted in this step: a new run of the handler
\* reaches its first request
Submits(c, op) == pc'[c][op].at = FirstAwait(op) /\ pc'[c][op] # pc[c][op]

\* C13 (no duplicate submissions): for every country and operation the busy flag is
\* true exactly while a request of that operation for that country is in flight, and
\* while it is true no further submission of the same pair is accepted; so at most
\* one request of the pair is in flight at any time.
C13_NoDuplicateSubmissions ==
    [][\A c \in CountryType, op \in OpKeys :
          /\ loadingMap[c][op] <=> (pc[c][op].at # "idle")
          /\ loadingMap'[c][op] <=> (pc'[c][op].at # "idle")
          /\ loadingMap[c][op] => ~Submits(c, op)]_vars

\* C13 witness: two different operations of one country are in flight, each once,
\* the download already at its second request
C13_Witness ==
    \E c \in CountryType :
        /\ loadingMap[c].download /\ pc[c].download.at = "fetch"
        /\ loadingMap[c].redownload /\ pc[c].redownload.at = "fetch"

\* C14 (single tracked job): whenever no download of the country is under way and
\* the country tracks an exported job, that job is the one returned by the latest
\* Create that succeeded for the country.
C14_SingleTrackedJob ==
    \A c \in CountryType :
        (pc[c].download.at = "idle" /\ jobs[c].job_id \in JobIds)
        => jobs[c].job_id = lastCreated[c]

(***************************************************************************)
(* Properties of the schedule editor                                       *)
(***************************************************************************)

C6_PostSaveBaselineReset ==
    [][(schedEvent' = "listed" /\ savedKey # NoKey)
          => /\ form'[savedKey] = initialValues(data'[savedKey])
             /\ ~isDirty'[savedKey]]_vars

\* a step that edits, submits or settles the save of key a
StepOn(a) ==
    \/ form'[a] # form[a] /\ schedEvent' # "listed"
    \/ pending = NoKey /\ pending' = a
    \/ pending = a /\ pending' = NoKey

\* C7: a step on one schedule key leaves every other key's form values,
\* baseline and dirty flag alone, and no other key whose form is dirty and
\* valid is kept from being saved while the first key's request is in flight.
C7_IndependentRecords ==
    [][\A a, b \in ScheduleKey :
          (a # b /\ StepOn(a))
          => /\ form'[b] = form[b]
             /\ data'[b] = data[b]
             /\ isDirty'[b] = isDirty[b]
             /\ (pending' = a /\ isDirty'[b] /\ formValid(form'[b]))
                    => saveButtonActive(b)']_vars

\* C8: an update request is sent only from a dirty form, and its payload
\* differs from the baseline in enabled, day_of_week, hour or minute.
C8_SaveOnlyWhenDirty ==
    [][\A k \in ScheduleKey :
          (pending = NoKey /\ pending' = k)
          => /\ isDirty[k]
             /\ onSave(data[k], form[k]) # baseline(data[k])]_vars

\* C8 witness: an update request is in flight
C8_Witness == loaded /\ pending # NoKey /\ isDirty[pending]

\* C9: a failed update leaves every form's values, baseline and dirty flag as
\* they were, raises an error, and leaves Save usable for the same form.
C9_FailedSave ==
    [][schedEvent' = "save_error"
          => /\ form' = form
             /\ data' = data
             /\ isDirty' = isDirty
             /\ schedNotice' = "error"
             /\ \A k \in ScheduleKey :
                    (pending = k /\ isDirty[k] /\ formValid(form[k]))
                    => (saveButtonActive(k)' /\ formValid(form'[k]))]_vars

\* C9 witness: a save has failed and the same form can be submitted again
C9_Witness ==
    \E k \in ScheduleKey :
        schedEvent = "save_error" /\ schedNotice = "error" /\ loaded
        /\ isDirty[k] /\ formValid(form[k]) /\ pending = NoKey

\* a step that consumes the failure of the list request
ListFailure == fetch # "idle" /\ fetch' # fetch /\ schedEvent' \notin {"listed", "saved"}

C17_NoOptimisticUpdate ==
    [][/\ data' # data => schedEvent' = "listed"
       /\ \A k \in ScheduleKey :
            (pending # k /\ pending' = k)
            => (data' = data /\ form' = form /\ isDirty' = isDirty)]_vars

\* C17 witness: the save of an edited record has been answered and the baseline is
\* still the record of the last list response
C17_Witness ==
    /\ schedEvent = "saved"
    /\ savedKey # NoKey
    /\ \E k \in ScheduleKey :
        savedKey = k /\ isDirty[k] /\ onSave(data[k], form[k]) # baseline(data[k])

(***************************************************************************)
(* Properties of one save                                                  *)
(***************************************************************************)

\* the body of the claim: the four form fields, and every_2_weeks and the given
\* timezone beside them
ExpectedBody(s, values, timezone) ==
    [enabled |-> values.enabled, day_of_week |-> values.day_of_week,
     hour |-> values.time.hour, minute |-> values.time.minute,
     every_2_weeks |-> s.every_2_weeks, timezone |-> timezone]

\* C15 (save submission), as claimed: a save sends exactly one PUT, to
\* /schedules/{key} of the submitted record; its body has enabled, day_of_week, hour
\* and minute from the form, every_2_weeks and timezone exactly as last received,
\* and no key, label or updated_at.
C15_SaveSubmission ==
    putSent # <<>>
    => /\ Len(putSent) = 1
       /\ putSent[1].method = "PUT"
       /\ putSent[1].url = <<"schedules", saveFrom.s.key>>
       /\ putSent[1].body = ExpectedBody(saveFrom.s, saveFrom.values, saveFrom.s.timezone)

\* C15, amended: as above, with the timezone as last received when the record has
\* one, and Australia/Sydney when the record's timezone is missing, null or empty.
C15_SaveSubmissionTimezoneDefaulted ==
    putSent # <<>>
    => /\ Len(putSent) = 1
       /\ putSent[1].method = "PUT"
       /\ putSent[1].url = <<"schedules", saveFrom.s.key>>
       /\ putSent[1].body =
            ExpectedBody(saveFrom.s, saveFrom.values,
                         IF saveFrom.s.timezone = "" THEN "Australia/Sydney"
                         ELSE saveFrom.s.timezone)

\* C15 witness: the PUT of a record with label, updated_at and a timezone of its own
\* has been sent, with every form field different from the record
C15_Witness ==
    /\ putSent # <<>>
    /\ saveFrom.s.label # "" /\ saveFrom.s.updated_at # ""
    /\ saveFrom.s.timezone = "Pacific/Auckland"
    /\ saveFrom.values.enabled # saveFrom.s.enabled
    /\ saveFrom.values.day_of_week # saveFrom.s.day_of_week
    /\ saveFrom.values.time.hour # saveFrom.s.hour

(***************************************************************************)
(* Properties of the summary of an artifact response                       *)
(***************************************************************************)

\* the field of the locally held fallback: the baseline's when it has one, else the
\* job id the artifact was asked for and the name the file was saved under
FallbackField(f) ==
    IF f \in DOMAIN parseIn.baseline THEN parseIn.baseline[f]
    ELSE IF f = "job_id" THEN parseIn.jobId
    ELSE IF f = "file_name" THEN parseIn.filename
    ELSE Undef

\* header `name` counts as present: it is sent, and (unless a header without a value
\* counts too) it has a value
Present(name, emptyCounts) ==
    name \in DOMAIN parseIn.headers /\ (emptyCounts \/ parseIn.headers[name] # "")

\* header first, else fallback, else default: the text fields of the summary
TextField(name, f, default, emptyCounts) ==
    IF Present(name, emptyCounts) THEN parseIn.headers[name]
    ELSE IF ~FalsyText(FallbackField(f)) THEN FallbackField(f)
    ELSE default

\* header first, else fallback, else default: every field a header can carry
HeaderFallback(emptyCounts) ==
    parsed # <<>>
    => /\ parsed[1].job_id = TextField("x-kogan-export-job", "job_id", "", emptyCounts)
       /\ parsed[1].status =
            TextField("x-kogan-export-status", "status", "exported", emptyCounts)
       /\ parsed[1].country_type =
            TextField("x-kogan-export-country", "country_type", "AU", emptyCounts)
       /\ parsed[1].applied_at =
            TextField("x-kogan-export-applied-at", "applied_at", Null, emptyCounts)
       /\ parsed[1].exported_at =
            TextField("x-kogan-export-exported-at", "exported_at", Null, emptyCounts)
       /\ parsed[1].row_count =
            (IF Present("x-kogan-export-rows", emptyCounts)
             THEN Number(parseIn.headers["x-kogan-export-rows"])
             ELSE IF "row_count" \in DOMAIN parseIn.baseline
                  THEN parseIn.baseline.row_count ELSE 0)

\* C18 (header metadata fallback), as claimed: for every combination of present and
\* absent headers (job id, row count, country, status, applied-at, exported-at) the
\* parse yields a summary, each field being the header's value when the header is
\* present, otherwise the fallback's value, otherwise the fixed default (empty job
\* id, 0 rows, status exported, null time stamps).
C18_HeaderFallback == HeaderFallback(TRUE)

\* C18, amended: the same with "present" read as "sent with a non-empty value": a
\* header sent without a value is treated as absent.
C18_HeaderFallbackNonEmpty == HeaderFallback(FALSE)

\* C18 witness: a summary parsed from a response that carries some headers with a
\* value, one without, and lacks others, with and without a fallback value for them
C18_Witness ==
    /\ parsed # <<>>
    /\ DOMAIN parseIn.headers = {"x-kogan-export-rows", "x-kogan-export-status",
                                 "x-kogan-export-applied-at"}
    /\ parseIn.headers["x-kogan-export-rows"] = "0"
    /\ parseIn.headers["x-kogan-export-status"] = "applied"
    /\ parseIn.headers["x-kogan-export-applied-at"] = ""
    /\ DOMAIN parseIn.baseline = {"job_id", "file_name", "row_count", "country_type"}
    /\ parsed[1].exported_at = Null
    /\ parsed[1].row_count = 0

(***************************************************************************)
(* Properties of the name of a downloaded file                             *)
(***************************************************************************)

\* the content-disposition header supplies a file name
Supplied == nameIn.cd.sent /\ nameIn.cd.raw # <<>>

\* the supplied name with its escapes replaced
SuppliedDecoded ==
    [i \in 1..Len(nameIn.cd.raw) |->
        IF nameIn.cd.raw[i] = "%41" THEN "A" ELSE nameIn.cd.raw[i]]

\* the names that are built from a country and a time stamp
CountryStampNames ==
    {CountryStampName(c, t) : c \in CountryType, t \in {"20250301", StampText}}

\* C19 (file naming), as claimed: the saved file is named by the percent-decoded
\* content-disposition file name whenever the header supplies one, and otherwise by
\* a generated name built from country and time stamp.
C19_FileNaming ==
    saved # <<>>
    => IF Supplied THEN saved[1] = SuppliedDecoded
       ELSE saved[1] \in CountryStampNames

\* C19, amended: the saved file is named by the percent-decoded content-disposition
\* file name whenever the header supplies one; otherwise by the file name the caller
\* passes (the job's file_name) when that is not empty; otherwise by
\* kogan_export_<job id>.csv.  No file is saved when the supplied name is not valid
\* percent-encoding.
C19_FileNamingByJob ==
    /\ saved # <<>>
       => saved[1] = (IF Supplied THEN SuppliedDecoded
                      ELSE IF nameIn.fallbackFileName # <<>> THEN nameIn.fallbackFileName
                      ELSE <<"kogan_export_", nameIn.jobId, ".csv">>)
    /\ nameThrew => (saved = <<>> /\ Supplied)

\* C19 witness: a file saved under a decoded server name although the caller passed
\* a file name of its own
C19_Witness ==
    /\ saved # <<>>
    /\ nameIn.cd.star /\ nameIn.cd.raw = <<"%41", "a">>
    /\ nameIn.fallbackFileName # <<>>
    /\ saved[1] = <<"A", "a">>

(***************************************************************************)
(* Properties of the request timeout                                       *)
(***************************************************************************)

\* the request goes to the create-export, the download or the apply endpoint
ToExportEndpoint ==
    \/ config.url.path \in {<<"kogan-template", "export">>, <<"kogan-template", "download">>}
    \/ \E j \in UrlJobIds :
         config.url.path \in {<<"kogan-template", "export", j, "apply">>,
                              <<"kogan-template", "export", j, "download">>}

\* the timeout the config came with, 0 when it had none
Configured == IF config.timeout = NoTimeout THEN 0 ELSE config.timeout

MissingRequired(k) == form[k].day_of_week = "" \/ ~isDayjs(form[k].time)

\* C21 (client-side validation): while a required field (day_of_week or time) of a
\* form is missing, no step sends the update request of that record, whether the
\* form is dirty or not; the attempt changes neither the records nor the forms.
C21_ClientSideValidation ==
    [][\A k \in ScheduleKey :
          (loaded /\ MissingRequired(k))
          => /\ ~(pending # k /\ pending' = k)
             /\ schedEvent' = "submit_invalid"
                => (pending' = pending /\ fetch' = fetch /\ data' = data /\ form' = form)]_vars

\* C21 witness: a save of a dirty form was attempted with its time cleared; the
\* validation message shows and no request is in flight
C21_Witness ==
    /\ schedEvent = "submit_invalid" /\ schedNotice = "invalid"
    /\ pending = NoKey
    /\ \E k \in ScheduleKey : isDirty[k] /\ ~isDayjs(form[k].time)

\* C22 (busy flags are per operation): while one operation of a country is in
\* flight a different operation of that country can still be started (its button
\* takes the click); and no step of one operation's handler changes the busy flag
\* of another operation of the country.
C22_BusyFlagsPerOperation ==
    [][\A c \in CountryType, op \in OpKeys : \A other \in OpKeys \ {op} :
          /\ (loadingMap[c][op] /\ ~loadingMap[c][other])
             => buttonTakesClick(loadingMap, c, other)
          /\ pc'[c][other] # pc[c][other]
             => loadingMap'[c][op] = loadingMap[c][op]]_vars

\* C22 witness: an apply was started while a redownload of the same country was in
\* flight, and the redownload has ended since, the apply still being in flight
C22_Witness ==
    \E c \in CountryType :
        /\ event \in {"refetch_ok", "refetch_error"}
        /\ loadingMap[c].apply /\ pc[c].apply.at = "apply"
        /\ ~loadingMap[c].redownload
        /\ \A o \in CountryType \ {c} : \A k \in OpKeys : ~loadingMap[o][k] /\ Falsy(jobs[o])

\* C23 (apply does not discard a newer job): when an Apply of job J succeeds, the
\* country's tracked reference is cleared if it still refers to J and is left as it
\* is if it refers to another job by then.
C23_ApplyKeepsNewerJob ==
    [][\A c \in CountryType :
          (Settles(c, "apply") /\ event' = "apply_ok" /\ pc[c].apply.id \in JobIds
             /\ jobs[c].job_id \in JobIds)
          => jobs'[c] = (IF jobs[c].job_id = pc[c].apply.id THEN NoJob ELSE jobs[c])]_vars

\* C25 (schedule timezone default): the body of an update request has a non-empty
\* timezone: the record's when the record has one, Australia/Sydney when the
\* record's timezone is absent or empty.
C25_TimezoneDefault ==
    putSent # <<>>
    => /\ putSent[1].body.timezone # ""
       /\ saveFrom.s.timezone # "" => putSent[1].body.timezone = saveFrom.s.timezone
       /\ saveFrom.s.timezone = "" => putSent[1].body.timezone = "Australia/Sydney"

\* C25 witness: the update of a record without a timezone has been sent
C25_Witness ==
    /\ putSent # <<>>
    /\ saveFrom.s.timezone = ""
    /\ putSent[1].body.timezone = "Australia/Sydney"

\* C24 (busy flags always clear): when every request eventually settles, for every
\* country and operation a busy flag that is true eventually becomes false again.
C24_BusyFlagsClear ==
    \A c \in CountryType, op \in OpKeys : []<>~loadingMap[c][op]

\* C24 witness: a busy flag is false again after its handler ended on an error path
\* while another handler of the country is still waiting for its request
C24_Witness ==
    \E c \in CountryType :
        /\ event \in {"create_error", "fetch_error"}
        /\ ~loadingMap[c].download /\ pc[c].download = Idle
        /\ loadingMap[c].redownload /\ loadingMap[c].apply

(***************************************************************************)
(* Properties of the freight config page                                   *)
(***************************************************************************)

\* this step sends a PATCH /freight-config
SendsPatch == freightPatch = <<>> /\ freightPatch' # <<>>

\* the fields whose form value is not the one of the config held from the server
\* (every field while no config is held)
Differing ==
    {k \in FreightConfigKey : freightData = <<>> \/ freightForm[k] # freightData[1][k]}

\* C26 (a save sends only changes): the body of the PATCH a save sends has exactly
\* the fields whose validated form value differs from the config last held from the
\* server, each with its form value; a save of a valid form in which no field
\* differs sends no request.
C26_SaveSendsOnlyChanges ==
    [][/\ SendsPatch
          => /\ freightPatch'[1].method = "PATCH"
             /\ DOMAIN freightPatch'[1].body = Differing
             /\ \A k \in Differing : freightPatch'[1].body[k] = freightForm[k]
       /\ (Differing = {} /\ freightEvent' \in {"no_change", "patch"})
          => (freightEvent' = "no_change" /\ freightPatch' = freightPatch)]_vars

\* C26 witness: a config is held, one of the two fields was changed, and the PATCH
\* in flight carries that field alone
C26_Witness ==
    /\ freightEvent = "patch"
    /\ freightData # <<>>
    /\ freightPatch # <<>>
    /\ \E k \in FreightConfigKey :
          /\ DOMAIN freightPatch[1].body = {k}
          /\ freightPatch[1].body[k] # freightData[1][k]

\* C27 (outcome of a save): when onSave returns, on whichever path, saving is
\* false; on success the cached config and the form both are the server's answer;
\* on a validation or request failure the cached config and the form are unchanged.
C27_SaveOutcome ==
    [][/\ freightEvent' \in {"invalid", "no_change", "patch_error", "saved"}
          => ~freightSaving'
       /\ freightEvent' = "saved"
          => (freightData' = freightSaved' /\ freightForm' = freightSaved'[1])
       /\ freightEvent' \in {"invalid", "patch_error"}
          => (freightData' = freightData /\ freightForm' = freightForm)]_vars

\* C27 witness: a save succeeded, and the server's answer (not the config of zeros)
\* is what the cache and the form hold
C27_Witness ==
    /\ freightEvent = "saved"
    /\ ~freightSaving
    /\ freightData = freightSaved
    /\ freightForm = freightSaved[1]
    /\ freightForm # [k \in FreightConfigKey |-> 0]

(***************************************************************************)
(* Properties of the application shell                                     *)
(***************************************************************************)

\* the current-user check of this document settles in this step
CheckSettles == meCall # "done" /\ meCall' = "done" /\ pathname' = pathname

\* C28 (authentication gate): the router is never rendered before the current-user
\* check of the document has settled; when the check has failed and the location is
\* not /login, App renders no router and the document is replaced by /login; when
\* it has succeeded at /login, the document is replaced by /.
C28_AuthenticationGate ==
    [][/\ view' = "router" => (checked' /\ meCall' = "done")
       /\ meCall' # "done" => view' = "spin"
       /\ (CheckSettles /\ meCall = "caught" /\ pathname # "/login")
          => view' = "to_login"
       /\ (CheckSettles /\ meCall = "then" /\ pathname = "/login")
          => view' = "to_home"
       /\ view = "to_login" => (view' = "spin" /\ pathname' = "/login")
       /\ view = "to_home" => (view' = "spin" /\ pathname' = "/")]_vars

\* C28 witness: the check failed on a page of the layout and App has asked for /login
\* instead of rendering the router
C28_Witness ==
    /\ authEvent = "checked"
    /\ checked /\ ~isAuthed
    /\ pathname = "/schedules"
    /\ view = "to_login"

(***************************************************************************)
(* Properties of the products page                                         *)
(***************************************************************************)

\* the filters a request carries are those of the criteria c
CarriesCriteria(r, c) ==
    /\ r.sku = (IF c.sku = <<>> \/ c.sku = <<"">> THEN <<>> ELSE c.sku)
    /\ r.tag = (IF c.tags = <<>> \/ c.tags = <<<<>>>> THEN <<>> ELSE <<join(c.tags[1])>>)

\* C29 (filters are committed only by Search): only a Search, a Reset or the
\* clearing of both inputs changes the criteria; a list request carries the criteria
\* as they were or as the step commits them, and an export request the committed
\* criteria, whatever the form holds; a Search commits the form's SKU and tags and,
\* like a Reset, sets the page to 1; clearing both inputs empties the criteria and
\* sets the page to 1 exactly when the committed criteria were not empty.
C29_FiltersCommittedBySearch ==
    [][/\ prodEvent' \notin {"search", "reset", "cleared"} => criteria' = criteria
       /\ \A r \in listRequests' :
             CarriesCriteria(r, criteria) \/ CarriesCriteria(r, criteria')
       /\ prodEvent' = "export" => CarriesCriteria(exportRequest'[1], criteria)
       /\ prodEvent' = "search"
          => /\ page' = 1
             /\ CarriesCriteria(listParams(1, criteria'), searchForm)
             /\ listParams(1, criteria') \in listRequests'
       /\ prodEvent' = "reset" => (page' = 1 /\ criteria' = NoCriteria)
       /\ prodEvent' = "cleared"
          => (criteria # NoCriteria /\ criteria' = NoCriteria /\ page' = 1)
       /\ prodEvent' = "edit"
          => (page' = page
              /\ (criteria # NoCriteria
                  => \/ searchForm'.sku \notin {<<>>, <<"">>, <<" ">>}
                     \/ searchForm'.tags \notin {<<>>, <<<<>>>>}))]_vars

\* C29 witness: the form holds input that was not submitted while an export asks for
\* the committed criteria on a later page
C29_Witness ==
    /\ prodEvent = "export"
    /\ criteria = [sku |-> <<"V952">>, tags |-> <<<<"au", "nz">>>>]
    /\ searchForm = [sku |-> <<" ">>, tags |-> <<<<"nz">>>>]
    /\ page = MaxPage
    /\ exportRequest = <<[sku |-> <<"V952">>, tag |-> <<<<"au", ",", "nz">>>>]>>

=============================================================================
